---------------------------- MODULE Spec2Model ----------------------------
(***************************************************************************)
(* Model of the RS485 command interpreter of the NPP-301 characterizer     *)
(* firmware (npp301-characterizer.c, listed in src/README.md).             *)
(*                                                                         *)
(* A byte is a one-character string; the zero byte is NUL.  A C buffer     *)
(* char b[n] is a sequence of n bytes, C index i being element i+1.        *)
(***************************************************************************)
EXTENDS Integers, Sequences, FiniteSets, TLC

NUL == "NUL"

\* ---------------------------------------------------------------------
\* Program constants
\* ---------------------------------------------------------------------
NBUFA == 80
NBUFB == 268
MYID == "N"
VERSION_STR ==
  << "0", ".", "1", " ", "P", "I", "C", "1", "8", "F", "1", "6", "Q", "4", "1",
     " ", "N", "P", "P", "-", "3", "0", "1", " ",
     "C", "h", "a", "r", "a", "c", "t", "e", "r", "i", "z", "e", "r" >>
MY_ANC2 == 18
MY_ANC7 == 23
MY_ANB5 == 13
MY_ANB6 == 14
MY_ANB7 == 15

\* ---------------------------------------------------------------------
\* C library and buffer helpers
\* ---------------------------------------------------------------------
At(buf, i) == buf[i + 1]

Put(buf, i, c) == [buf EXCEPT ![i + 1] = c]

\* The C string that starts at index p of buf: the bytes before the first
\* zero byte at or after p.
\* The scans below are the C loops "advance i from p while ..."; each is
\* written as the least index at which the loop stops.
First(S) == CHOOSE i \in S : \A j \in S : i <= j

\* The element of a one-element set.  In The({ F(x) : x \in { e } }) the
\* local x is computed once, as a local variable of the C function is;
\* under ENABLED, TLC computes the e of LET x == e anew at every use of x.
The(S) == CHOOSE v \in S : TRUE

CStr(buf, p) ==
  LET stop == { i \in p..Len(buf) : i = Len(buf) \/ At(buf, i) = NUL }
  IN SubSeq(buf, p + 1, First(stop))

Wrap16(n) == ((n + 32768) % 65536) - 32768

Int8(n) == ((n + 128) % 256) - 128

Uint8(n) == n % 256

DigitChars == << "0", "1", "2", "3", "4", "5", "6", "7", "8", "9" >>

IsDigit(c) == \E d \in 1..10 : DigitChars[d] = c

DigitVal(c) == (CHOOSE d \in 1..10 : DigitChars[d] = c) - 1

IsSpace(c) == c \in { " ", "\t", "\n", "\r", "\f" }

\* atoi: skip white space, take an optional sign, accumulate the decimal
\* digits in a 16-bit int (XC8), stop at the first byte that is no digit.
SkipSpace(buf, p) ==
  First({ i \in p..Len(buf) : i = Len(buf) \/ ~IsSpace(At(buf, i)) })

RECURSIVE AtoiDigits(_, _, _)
AtoiDigits(buf, p, acc) ==
  IF p < Len(buf) /\ IsDigit(At(buf, p))
  THEN AtoiDigits(buf, p + 1, Wrap16(acc * 10 + DigitVal(At(buf, p))))
  ELSE acc

atoi_from(buf, q) ==
  LET neg == q < Len(buf) /\ At(buf, q) = "-"
      signed == q < Len(buf) /\ At(buf, q) \in { "-", "+" }
      n == AtoiDigits(buf, IF signed THEN q + 1 ELSE q, 0)
  IN IF neg THEN Wrap16(0 - n) ELSE n

\* Mutant: a string without digits is reported as -1.
atoi_NoDigitsMinusOne(buf, p) ==
  The({ IF q < Len(buf) /\ (IsDigit(At(buf, q)) \/ At(buf, q) \in { "-", "+" })
        THEN atoi_from(buf, q) ELSE -1 :
        q \in { SkipSpace(buf, p) } })

atoi(buf, p) == The({ atoi_from(buf, q) : q \in { SkipSpace(buf, p) } })

\* printf conversions %u and %d.
RECURSIVE FmtU(_)
FmtU(n) ==
  IF n < 10 THEN << DigitChars[n + 1] >>
  ELSE FmtU(n \div 10) \o << DigitChars[(n % 10) + 1] >>

FmtD(n) == IF n < 0 THEN << "-" >> \o FmtU(0 - n) ELSE FmtU(n)

\* Mutant: the size passed is that of a pointer (2 bytes), not of the buffer.
snprintf_SizeofPointer(n, s) == SubSeq(s, 1, 1)

\* snprintf(bufB, NBUFB, ...): at most NBUFB-1 bytes are stored before the
\* terminating zero.  bufB is held as the C string it contains.
snprintf(n, s) == IF Len(s) > n - 1 THEN SubSeq(s, 1, n - 1) ELSE s

\* strtok with the separators ", ".  p is the index scanning starts at (the
\* string argument, or the saved position when the argument is NULL).
\* Result: tok, the index of the token or -1 for NULL; save, the position
\* the next call resumes at; buf, the buffer with the token terminated.
sep_tok_CommaOnly == { "," }

sep_tok == { ",", " " }

SkipSep(buf, p) ==
  First({ i \in p..(Len(buf) - 1) : At(buf, i) \notin sep_tok })

TokEnd(buf, p) ==
  First({ i \in p..(Len(buf) - 1) : At(buf, i) = NUL \/ At(buf, i) \in sep_tok })

strtok(buf, p) ==
  The({ IF At(buf, s) = NUL
        THEN [tok |-> -1, save |-> s, buf |-> buf]
        ELSE The({ IF At(buf, e) = NUL
                   THEN [tok |-> s, save |-> e, buf |-> buf]
                   ELSE [tok |-> s, save |-> e + 1, buf |-> Put(buf, e, NUL)] :
                   e \in { TokEnd(buf, s) } }) :
        s \in { SkipSep(buf, p) } })

\* ---------------------------------------------------------------------
\* Frame extraction
\* ---------------------------------------------------------------------
\* Mutant: the scan does not stop at a zero byte.
find_char_IgnoresNul(buf, start, end, c) ==
  LET stop == { i \in start..end : At(buf, i) = c }
  IN IF stop = { } THEN -1 ELSE First(stop)

\* The loop returns at the first index in start..end that holds a zero
\* byte (-1) or c (that index); -1 when there is none.
find_char(buf, start, end, c) ==
  The({ IF stop = { } THEN -1
        ELSE IF At(buf, First(stop)) = NUL THEN -1
        ELSE First(stop) :
        stop \in { { i \in start..end : At(buf, i) = NUL \/ At(buf, i) = c } } })

\* Mutant: the node id is not compared.
trim_NoIdCheck(buf, nbytes) ==
  LET start == find_char(buf, 0, nbytes - 1, "/")
      end == find_char(buf, start, nbytes - 1, "!")
  IN IF start = -1 THEN [buf |-> Put(buf, 0, NUL), cmd |-> 0]
     ELSE IF end = -1 THEN [buf |-> Put(buf, 0, NUL), cmd |-> 0]
     ELSE [buf |-> Put(buf, end, NUL), cmd |-> start + 2]

\* Mutant: the node id is left at the front of the command.
trim_KeepsId(buf, nbytes) ==
  LET start == find_char(buf, 0, nbytes - 1, "/")
      end == find_char(buf, start, nbytes - 1, "!")
  IN IF start = -1 THEN [buf |-> Put(buf, 0, NUL), cmd |-> 0]
     ELSE IF end = -1 THEN [buf |-> Put(buf, 0, NUL), cmd |-> 0]
     ELSE IF At(buf, start + 1) # MYID THEN [buf |-> Put(buf, 0, NUL), cmd |-> 0]
     ELSE [buf |-> Put(buf, end, NUL), cmd |-> start + 1]

\* Mutant: the '!' is not trimmed off.
trim_NoTerminate(buf, nbytes) ==
  LET start == find_char(buf, 0, nbytes - 1, "/")
      end == find_char(buf, start, nbytes - 1, "!")
  IN IF start = -1 THEN [buf |-> Put(buf, 0, NUL), cmd |-> 0]
     ELSE IF end = -1 THEN [buf |-> Put(buf, 0, NUL), cmd |-> 0]
     ELSE IF At(buf, start + 1) # MYID THEN [buf |-> Put(buf, 0, NUL), cmd |-> 0]
     ELSE [buf |-> buf, cmd |-> start + 2]

\* Mutant: the '!' is looked for from the start of the buffer.
trim_EndFromZero(buf, nbytes) ==
  LET start == find_char(buf, 0, nbytes - 1, "/")
      end == find_char(buf, 0, nbytes - 1, "!")
  IN IF start = -1 THEN [buf |-> Put(buf, 0, NUL), cmd |-> 0]
     ELSE IF end = -1 THEN [buf |-> Put(buf, 0, NUL), cmd |-> 0]
     ELSE IF At(buf, start + 1) # MYID THEN [buf |-> Put(buf, 0, NUL), cmd |-> 0]
     ELSE [buf |-> Put(buf, end, NUL), cmd |-> start + 2]

\* Result: buf, the buffer as trim leaves it; cmd, the index in buf of the
\* returned command string.
trim_RS485_command(buf, nbytes) ==
  The({ IF start = -1 THEN [buf |-> Put(buf, 0, NUL), cmd |-> 0]
        ELSE The({ IF end = -1 THEN [buf |-> Put(buf, 0, NUL), cmd |-> 0]
                   ELSE IF At(buf, start + 1) # MYID
                        THEN [buf |-> Put(buf, 0, NUL), cmd |-> 0]
                   ELSE [buf |-> Put(buf, end, NUL), cmd |-> start + 2] :
                   end \in { find_char(buf, start, nbytes - 1, "!") } }) :
        start \in { find_char(buf, 0, nbytes - 1, "/") } })

\* The indices of buf that the loop of find_char reads: from start up to
\* the index at which it returns, or up to end.
find_char_reads(buf, start, end, c) ==
  The({ IF stop = { } THEN start..end ELSE start..First(stop) :
        stop \in { { i \in start..end : At(buf, i) = NUL \/ At(buf, i) = c } } })

\* The indices of buf that trim_RS485_command reads or writes.
trim_touched(buf, nbytes) ==
  The({ find_char_reads(buf, 0, nbytes - 1, "/") \cup
        IF start = -1 THEN { 0 }
        ELSE find_char_reads(buf, start, nbytes - 1, "!") \cup
             The({ IF end = -1 THEN { 0 }
                   ELSE { start + 1 } \cup
                        IF At(buf, start + 1) # MYID THEN { 0 } ELSE { end } :
                   end \in { find_char(buf, start, nbytes - 1, "!") } }) :
        start \in { find_char(buf, 0, nbytes - 1, "/") } })

\* ---------------------------------------------------------------------
\* Reply texts (the format strings of interpret_RS485_command)
\* ---------------------------------------------------------------------
ReplyEnd_NoNewline == << "#" >>

ReplyEnd == << "#", "\n" >>

ReplyV == << "/", "0", "v", " " >> \o VERSION_STR \o ReplyEnd

ReplyL(i) == << "/", "0", "L", " " >> \o FmtD(i) \o ReplyEnd

\* Mutant: the reply to a missing value does not call it an error.
ReplyLNoValue_NoErrorWord ==
  << "/", "0", "L", " ", "n", "o", " ", "v", "a", "l", "u", "e" >> \o ReplyEnd

ReplyLNoValue ==
  << "/", "0", "L", " ", "e", "r", "r", "o", "r", ":", " ",
     "n", "o", " ", "v", "a", "l", "u", "e" >> \o ReplyEnd

\* Mutant: the port B values are written in pin order 5, 6, 7.
ReplyA_PinOrder(v1, v2, v3, v4, v5) ==
  << "/", "0", "a", " " >> \o FmtU(v1) \o << " " >> \o FmtU(v2) \o << " " >>
    \o FmtU(v5) \o << " " >> \o FmtU(v4) \o << " " >> \o FmtU(v3) \o ReplyEnd

ReplyA(v1, v2, v3, v4, v5) ==
  << "/", "0", "a", " " >> \o FmtU(v1) \o << " " >> \o FmtU(v2) \o << " " >>
    \o FmtU(v3) \o << " " >> \o FmtU(v4) \o << " " >> \o FmtU(v5) \o ReplyEnd

ReplyWOn(level) ==
  << "/", "0", "w", " ", "V", "R", "E", "F", " ", "o", "n", " ",
     "l", "e", "v", "e", "l", "=" >> \o FmtD(level) \o ReplyEnd

ReplyWOff ==
  << "/", "0", "w", " ", "V", "R", "E", "F", " ", "o", "f", "f" >> \o ReplyEnd

ReplyWMissing ==
  << "/", "0", "w", " ", "e", "r", "r", "o", "r", ":", " ",
     "m", "i", "s", "s", "i", "n", "g", " ", "l", "e", "v", "e", "l", " ",
     "a", "n", "d", " ", "o", "n", "/", "o", "f", "f", " ",
     "f", "l", "a", "g" >> \o ReplyEnd

\* Mutant: the command byte is not echoed.
ReplyUnknown_NoChar(c) ==
  << "/", "0", " ", "e", "r", "r", "o", "r", ":", " ",
     "U", "n", "k", "n", "o", "w", "n", " ",
     "c", "o", "m", "m", "a", "n", "d" >> \o ReplyEnd

ReplyUnknown(c) ==
  << "/", "0", c, " ", "e", "r", "r", "o", "r", ":", " ",
     "U", "n", "k", "n", "o", "w", "n", " ",
     "c", "o", "m", "m", "a", "n", "d" >> \o ReplyEnd

\* Mutant: any non-zero value switches the LED on.
LedBit_NonZero(k) == IF k # 0 THEN 1 ELSE 0

\* atoi(token_ptr) & 1, stored in a uint8_t.
LedBit(k) == Uint8(k % 2)

\* The two clamping statements applied to the int16_t level.
ClampLevel(level) ==
  LET a == IF level > 255 THEN 255 ELSE level
  IN IF a < 0 THEN 0 ELSE a

\* Mutant: the command is dispatched whether or not it is empty.
CmdNotEmpty_Always(buf, p) == TRUE

\* if (*cmd): the command string is not of zero length.
CmdNotEmpty(buf, p) == At(buf, p) # NUL

\* The optional second token of the w command; 1 when it is absent.
OnOffFlag(buf, tok) == IF tok # -1 THEN Int8(atoi(buf, tok)) ELSE 1

\* ---------------------------------------------------------------------
\* Received lines
\* ---------------------------------------------------------------------
\* Bounds of the input: the number of lines received in one run, and the
\* number of padding bytes (noise before a frame, separators before the
\* first argument).
MaxLines == 2
MaxPad == 1

Rep(c, n) == [i \in 1..n |-> c]

Frame(id, payload) == << "/", id >> \o payload \o << "!" >>

\* Argument tokens.  A number is written as printf would write it.
LValues == { 0, 1, 2, 3, -1, -2 }
WLevels == { -32768, -1, 0, 128, 255, 256, 32767 }
WFlags == { 0, 1, -1, 256 }
NotANumber == << "x" >>

LPayloads ==
  { << "L" >> \o t : t \in { << >>, NotANumber } \cup { FmtD(k) : k \in LValues } }
  \cup { << "L" >> \o Rep(" ", n) \o t : n \in 1..MaxPad, t \in { << "1" >>, NotANumber } }
  \cup { << "L", ",", " ", "," >>, << "L", "1", " ", "0" >> }

WPayloads ==
  { << "w" >> \o t : t \in { << >>, NotANumber } \cup { FmtD(k) : k \in WLevels } }
  \cup { << "w" >> \o Rep(",", n) : n \in 1..MaxPad }
  \cup { << "w", "1", "2", "8", " " >> \o f :
           f \in { NotANumber } \cup { FmtD(j) : j \in WFlags } }
  \cup { << "w", "2", "5", "6", ",", " ", "2" >>, << "w", "-", "1", " ", "0" >> }

Payloads ==
  { << >>, << "v" >>, << "v", "L", "1" >>, << "a" >>, << "a", " ", "1" >>,
    << "z" >>, << "z", "L", "1" >>, << "/" >> }
  \cup LPayloads \cup WPayloads

\* Framing variants: a frame for this node after noise, a frame for another
\* node, missing delimiters, several frames in a line, an embedded zero byte.
FramingLines ==
  { Rep("x", n) \o Frame(MYID, << "v" >>) : n \in 1..MaxPad }
  \cup { Frame("X", << "v" >>), Frame("X", << >>), Frame("X", << "L", "1" >>),
         Frame("X", << "v" >>) \o Frame(MYID, << "v" >>),
         Frame("/", << "v" >>) }
  \cup { << >>, << "x" >>, << "N", "v", "!" >>, << "/", "N", "v" >>,
         << "!", "/", "N", "v" >>,
         Frame(MYID, << "v" >>) \o Frame(MYID, << "z" >>),
         << NUL, "/", "N", "v", "!" >>, << "/", "N", "v", NUL, "!" >> }

\* Frames that fill the receive buffer: NBUFA-1 bytes and the zero byte.
LongLines ==
  { Frame(MYID, << "v" >> \o Rep("x", NBUFA - 5)),
    Frame(MYID, << "L" >> \o Rep(" ", NBUFA - 6) \o << "1" >>) }

Lines == { Frame(MYID, p) : p \in Payloads } \cup FramingLines \cup LongLines

\* The five conversions of one a command, in the order they are read.  The
\* last run is the largest value the uint16_t that ADC_read returns can hold.
AdcRuns ==
  { << 0, 0, 0, 0, 0 >>, << 1, 20, 300, 4095, 5 >>,
    << 65535, 65535, 65535, 65535, 65535 >> }

\* ---------------------------------------------------------------------
\* State
\* ---------------------------------------------------------------------
VARIABLES
  pc,            \* position of main: "getstr", "extract", or, inside
                 \* interpret_RS485_command, "interpret", "switch", "putstr",
                 \* "finish"
  bufA,          \* receive buffer, NBUFA bytes
  m,             \* the count uart1_getstr returned
  cmd,           \* index in bufA of the command string; -1 before trim is called
  bufB,          \* the C string in the transmit buffer
  GREENLED,      \* LATC4
  override_led,
  DAC1_EN,       \* DAC1CONbits.EN
  DAC1DATL,
  OPA1_EN,       \* OPA1CON0bits.EN
  line,          \* history: the line last received
  tx,            \* history: the strings transmitted since that line was received
  adc,           \* history: the ADC channels read since that line was received
  old,           \* history: the outputs when that line was received
  nlines,        \* history: the number of lines received
  nreplies,      \* history: the number of strings transmitted
  touched        \* history, kept where trim_RS485_command is applied on its
                 \* own: the indices of bufA that the call read or wrote

vars ==
  << pc, bufA, m, cmd, bufB, GREENLED, override_led, DAC1_EN, DAC1DATL,
     OPA1_EN, line, tx, adc, old, nlines, nreplies, touched >>

Outputs ==
  [ led |-> GREENLED, override |-> override_led,
    dac_en |-> DAC1_EN, level |-> DAC1DATL, opa_en |-> OPA1_EN ]

Init ==
  /\ pc = "getstr"
  /\ bufA = Rep(NUL, NBUFA)
  /\ m = 0
  /\ cmd = -1
  /\ bufB = << >>
  /\ GREENLED = 0
  /\ override_led = 0
  /\ DAC1_EN = 0
  /\ DAC1DATL = 0
  /\ OPA1_EN = 0
  /\ line = << >>
  /\ tx = << >>
  /\ adc = << >>
  /\ old = [ led |-> 0, override |-> 0, dac_en |-> 0, level |-> 0, opa_en |-> 0 ]
  /\ nlines = 0
  /\ nreplies = 0
  /\ touched = { }

\* ---------------------------------------------------------------------
\* Transport
\* ---------------------------------------------------------------------
\* uart1_getstr(buf, nbuf): stores the received line, of at most nbuf-1
\* bytes, at the start of buf, terminates it with a zero byte and leaves
\* the rest of buf as it was.  Returns the number of bytes stored.
uart1_getstr(buf, ln) ==
  [ buf |-> [ i \in 1..Len(buf) |->
                IF i <= Len(ln) THEN ln[i]
                ELSE IF i = Len(ln) + 1 THEN NUL
                ELSE buf[i] ],
    n |-> Len(ln) ]

\* uart1_putstr(str): transmits the bytes of the C string.
uart1_putstr(sent, str) == Append(sent, str)

\* ---------------------------------------------------------------------
\* main: the poll loop
\* ---------------------------------------------------------------------
GetStr ==
  /\ pc = "getstr"
  /\ nlines < MaxLines
  /\ nlines' = nlines + 1
  /\ \E ln \in Lines :
       /\ Len(ln) <= NBUFA - 1
       /\ bufA' = uart1_getstr(bufA, ln).buf
       /\ m' = uart1_getstr(bufA, ln).n
       /\ line' = ln
  /\ cmd' = -1
  /\ tx' = << >>
  /\ adc' = << >>
  /\ old' = Outputs
  /\ pc' = "extract"
  /\ UNCHANGED << bufB, GREENLED, override_led, DAC1_EN, DAC1DATL, OPA1_EN,
                  nreplies, touched >>

\* Mutant: a line that is dropped ends the loop.
Extract_StopsOnDiscard ==
  /\ pc = "extract"
  /\ IF m > 0
     THEN \E r \in { trim_RS485_command(bufA, NBUFA) } :
             /\ bufA' = r.buf
             /\ cmd' = r.cmd
             /\ pc' = IF CmdNotEmpty(r.buf, r.cmd) THEN "interpret" ELSE "stopped"
     ELSE /\ pc' = "stopped"
          /\ UNCHANGED << bufA, cmd >>
  /\ UNCHANGED << m, bufB, GREENLED, override_led, DAC1_EN, DAC1DATL, OPA1_EN,
                  line, tx, adc, old, nlines, nreplies, touched >>

Extract ==
  /\ pc = "extract"
  /\ IF m > 0
     THEN \E r \in { trim_RS485_command(bufA, NBUFA) } :
             /\ bufA' = r.buf
             /\ cmd' = r.cmd
             /\ pc' = IF CmdNotEmpty(r.buf, r.cmd) THEN "interpret" ELSE "getstr"
     ELSE /\ pc' = "getstr"
          /\ UNCHANGED << bufA, cmd >>
  /\ UNCHANGED << m, bufB, GREENLED, override_led, DAC1_EN, DAC1DATL, OPA1_EN,
                  line, tx, adc, old, nlines, nreplies, touched >>

\* ---------------------------------------------------------------------
\* interpret_RS485_command
\* ---------------------------------------------------------------------
InterpretBegin ==
  /\ pc = "interpret"
  /\ GREENLED' = IF override_led = 0 THEN 1 ELSE GREENLED
  /\ pc' = "switch"
  /\ UNCHANGED << bufA, m, cmd, bufB, override_led, DAC1_EN, DAC1DATL, OPA1_EN,
                  line, tx, adc, old, nlines, nreplies, touched >>

CmdV ==
  /\ pc = "switch"
  /\ At(bufA, cmd) = "v"
  /\ bufB' = snprintf(NBUFB, ReplyV)
  /\ pc' = "putstr"
  /\ UNCHANGED << bufA, m, cmd, GREENLED, override_led, DAC1_EN, DAC1DATL,
                  OPA1_EN, line, tx, adc, old, nlines, nreplies, touched >>

CmdL ==
  /\ pc = "switch"
  /\ At(bufA, cmd) = "L"
  /\ \E t \in { strtok(bufA, cmd + 1) } :
       /\ bufA' = t.buf
       /\ IF t.tok # -1
          THEN \E i \in { LedBit(atoi(t.buf, t.tok)) } :
                 /\ GREENLED' = i
                 /\ override_led' = i
                 /\ bufB' = snprintf(NBUFB, ReplyL(i))
          ELSE /\ bufB' = snprintf(NBUFB, ReplyLNoValue)
               /\ UNCHANGED << GREENLED, override_led >>
  /\ pc' = "putstr"
  /\ UNCHANGED << m, cmd, DAC1_EN, DAC1DATL, OPA1_EN, line, tx, adc, old,
                  nlines, nreplies, touched >>

\* ADC_read(ain): selects the channel, converts, returns ADRES.
ADC_read(log, ain, val) == Append(log, [ ch |-> ain, val |-> val ])

\* Mutant: the a command switches the reference on before it samples.
CmdA_AppliesVref ==
  /\ pc = "switch"
  /\ At(bufA, cmd) = "a"
  /\ \E r \in AdcRuns :
       /\ adc' = ADC_read(ADC_read(ADC_read(ADC_read(ADC_read(adc,
                   MY_ANC2, r[1]), MY_ANC7, r[2]), MY_ANB7, r[3]),
                   MY_ANB6, r[4]), MY_ANB5, r[5])
       /\ bufB' = snprintf(NBUFB, ReplyA(r[1], r[2], r[3], r[4], r[5]))
  /\ DAC1_EN' = 1
  /\ OPA1_EN' = 1
  /\ pc' = "putstr"
  /\ UNCHANGED << bufA, m, cmd, GREENLED, override_led, DAC1DATL,
                  line, tx, old, nlines, nreplies, touched >>

CmdA ==
  /\ pc = "switch"
  /\ At(bufA, cmd) = "a"
  /\ \E r \in AdcRuns :
       /\ adc' = ADC_read(ADC_read(ADC_read(ADC_read(ADC_read(adc,
                   MY_ANC2, r[1]), MY_ANC7, r[2]), MY_ANB7, r[3]),
                   MY_ANB6, r[4]), MY_ANB5, r[5])
       /\ bufB' = snprintf(NBUFB, ReplyA(r[1], r[2], r[3], r[4], r[5]))
  /\ pc' = "putstr"
  /\ UNCHANGED << bufA, m, cmd, GREENLED, override_led, DAC1_EN, DAC1DATL,
                  OPA1_EN, line, tx, old, nlines, nreplies, touched >>

CmdW ==
  /\ pc = "switch"
  /\ At(bufA, cmd) = "w"
  /\ \E t1 \in { strtok(bufA, cmd + 1) } :
       IF t1.tok # -1
       THEN \E level \in { ClampLevel(atoi(t1.buf, t1.tok)) },
               t2 \in { strtok(t1.buf, t1.save) } :
              /\ bufA' = t2.buf
              /\ IF OnOffFlag(t2.buf, t2.tok) # 0
                 THEN /\ DAC1_EN' = 1
                      /\ DAC1DATL' = Uint8(level)
                      /\ OPA1_EN' = 1
                      /\ bufB' = snprintf(NBUFB, ReplyWOn(level))
                 ELSE /\ OPA1_EN' = 0
                      /\ DAC1_EN' = 0
                      /\ bufB' = snprintf(NBUFB, ReplyWOff)
                      /\ UNCHANGED DAC1DATL
       ELSE /\ bufA' = t1.buf
            /\ bufB' = snprintf(NBUFB, ReplyWMissing)
            /\ UNCHANGED << DAC1_EN, DAC1DATL, OPA1_EN >>
  /\ pc' = "putstr"
  /\ UNCHANGED << m, cmd, GREENLED, override_led, line, tx, adc, old, nlines,
                  nreplies, touched >>

CmdDefault ==
  /\ pc = "switch"
  /\ At(bufA, cmd) \notin { "v", "L", "a", "w" }
  /\ bufB' = snprintf(NBUFB, ReplyUnknown(At(bufA, cmd)))
  /\ pc' = "putstr"
  /\ UNCHANGED << bufA, m, cmd, GREENLED, override_led, DAC1_EN, DAC1DATL,
                  OPA1_EN, line, tx, adc, old, nlines, nreplies, touched >>

\* Mutant: the reply is transmitted twice.
PutStr_Twice ==
  /\ pc = "putstr"
  /\ tx' = uart1_putstr(uart1_putstr(tx, bufB), bufB)
  /\ nreplies' = nreplies + 2
  /\ pc' = "finish"
  /\ UNCHANGED << bufA, m, cmd, bufB, GREENLED, override_led, DAC1_EN,
                  DAC1DATL, OPA1_EN, line, adc, old, nlines, touched >>

PutStr ==
  /\ pc = "putstr"
  /\ tx' = uart1_putstr(tx, bufB)
  /\ nreplies' = nreplies + 1
  /\ pc' = "finish"
  /\ UNCHANGED << bufA, m, cmd, bufB, GREENLED, override_led, DAC1_EN,
                  DAC1DATL, OPA1_EN, line, adc, old, nlines, touched >>

\* Mutant: the LED is switched off whatever the override flag says.
InterpretEnd_AlwaysOff ==
  /\ pc = "finish"
  /\ GREENLED' = 0
  /\ pc' = "getstr"
  /\ UNCHANGED << bufA, m, cmd, bufB, override_led, DAC1_EN, DAC1DATL, OPA1_EN,
                  line, tx, adc, old, nlines, nreplies, touched >>

InterpretEnd ==
  /\ pc = "finish"
  /\ GREENLED' = IF override_led = 0 THEN 0 ELSE GREENLED
  /\ pc' = "getstr"
  /\ UNCHANGED << bufA, m, cmd, bufB, override_led, DAC1_EN, DAC1DATL, OPA1_EN,
                  line, tx, adc, old, nlines, nreplies, touched >>

Next ==
  \/ GetStr
  \/ Extract
  \/ InterpretBegin
  \/ CmdV
  \/ CmdL
  \/ CmdA
  \/ CmdW
  \/ CmdDefault
  \/ PutStr
  \/ InterpretEnd

Spec == Init /\ [][Next]_vars

\* The steps main takes by itself once a line has been received.  The
\* processor keeps executing, and the ADC conversion and the transport
\* write are taken to return; when the next line arrives is up to the
\* sender, so GetStr is under no fairness condition.
Handling ==
  \/ Extract
  \/ InterpretBegin
  \/ CmdV
  \/ CmdL
  \/ CmdA
  \/ CmdW
  \/ CmdDefault
  \/ PutStr
  \/ InterpretEnd

SpecLive == Init /\ [][Next]_vars /\ WF_vars(Handling)

\* ---------------------------------------------------------------------
\* The pure frame extractor on its own
\* ---------------------------------------------------------------------
\* trim_RS485_command applied once to a receive buffer that holds a line,
\* its zero byte, and after it what an earlier line left behind; and, as a
\* function of any buffer content, to buffers that hold no zero byte at
\* all.  For those, line is the whole buffer and m is NBUFA.
MaxTrimLen == 4

TrimBytes == { "/", MYID, "!", "v", NUL }

RECURSIVE SeqsUpTo(_, _)
SeqsUpTo(S, n) ==
  IF n = 0 THEN { << >> }
  ELSE LET shorter == SeqsUpTo(S, n - 1)
       IN shorter \cup { Append(q, c) : q \in { r \in shorter : Len(r) = n - 1 }, c \in S }

TrimLines ==
  SeqsUpTo(TrimBytes, MaxTrimLen)
  \cup { Frame(MYID, q) : q \in SeqsUpTo(TrimBytes, MaxTrimLen - 1) }
  \cup { Rep("x", n) \o Frame(MYID, Rep("v", NBUFA - 4 - n)) : n \in 0..1 }

StaleBufs == { Rep(NUL, NBUFA), Rep("!", NBUFA), Rep("/", NBUFA) }

\* Buffers without a zero byte: a short tail of delimiters at the very end,
\* and a frame that takes all NBUFA bytes.
FullBufs ==
  { Rep(f, NBUFA - Len(t)) \o t :
      f \in { "x", "/", "!" }, t \in SeqsUpTo(TrimBytes \ { NUL }, MaxTrimLen) }
  \cup { Frame(MYID, Rep("v", NBUFA - 3)) }

InitTrim ==
  /\ pc = "trim_call"
  /\ \/ \E ln \in TrimLines, stale \in StaleBufs :
          /\ Len(ln) <= NBUFA - 1
          /\ bufA = uart1_getstr(stale, ln).buf
          /\ m = uart1_getstr(stale, ln).n
          /\ line = ln
     \/ \E full \in FullBufs :
          /\ bufA = full
          /\ m = NBUFA
          /\ line = full
  /\ cmd = -1
  /\ bufB = << >>
  /\ GREENLED = 0
  /\ override_led = 0
  /\ DAC1_EN = 0
  /\ DAC1DATL = 0
  /\ OPA1_EN = 0
  /\ tx = << >>
  /\ adc = << >>
  /\ old = [ led |-> 0, override |-> 0, dac_en |-> 0, level |-> 0, opa_en |-> 0 ]
  /\ nlines = 1
  /\ nreplies = 0
  /\ touched = { }

TrimCall ==
  /\ pc = "trim_call"
  /\ bufA' = trim_RS485_command(bufA, NBUFA).buf
  /\ cmd' = trim_RS485_command(bufA, NBUFA).cmd
  /\ touched' = trim_touched(bufA, NBUFA)
  /\ pc' = "trim_ret"
  /\ UNCHANGED << m, bufB, GREENLED, override_led, DAC1_EN, DAC1DATL, OPA1_EN,
                  line, tx, adc, old, nlines, nreplies >>

NextTrim == TrimCall

SpecTrim == InitTrim /\ [][NextTrim]_vars

\* ---------------------------------------------------------------------
\* Vocabulary of the properties
\* ---------------------------------------------------------------------
\* The received line as a reader of the wire sees it: the bytes before its
\* first zero byte.  Sequences are indexed from 1 here.
TextOf(ln) ==
  LET z == { i \in 1..Len(ln) : ln[i] = NUL }
  IN IF z = { } THEN ln ELSE SubSeq(ln, 1, First(z) - 1)

Rx == TextOf(line)

SlashAt(t) == { i \in 1..Len(t) : t[i] = "/" }

BangAfter(t) ==
  { j \in 1..Len(t) : t[j] = "!" /\ SlashAt(t) # { } /\ j > First(SlashAt(t)) }

\* No '/' at all, or no '!' after the first '/'.
NoFrame(t) == SlashAt(t) = { } \/ BangAfter(t) = { }

\* The byte right after the first '/' is not the node id (it may be the end
\* of the line).
NotForMe(t) ==
  /\ SlashAt(t) # { }
  /\ \/ First(SlashAt(t)) = Len(t)
     \/ t[First(SlashAt(t)) + 1] # "N"

\* The first '/' is followed by 'N' and a '!' follows later.
ForMe(t) ==
  /\ BangAfter(t) # { }
  /\ t[First(SlashAt(t)) + 1] = "N"

PayloadOf(t) == SubSeq(t, First(SlashAt(t)) + 2, First(BangAfter(t)) - 1)

\* A frame for this node with a payload that starts with command byte c.
Command(t, c) == ForMe(t) /\ PayloadOf(t) # << >> /\ PayloadOf(t)[1] = c

ArgsOf(t) == Tail(PayloadOf(t))

\* The first argument: what is left of the arguments after the leading
\* commas and spaces, up to the next comma or space.
Arg1Start(a) == { i \in 1..Len(a) : a[i] \notin { ",", " " } }

Arg1End(a) ==
  { j \in 1..Len(a) : j > First(Arg1Start(a)) /\ a[j] \in { ",", " " } }

Arg1(a) ==
  SubSeq(a, First(Arg1Start(a)),
         IF Arg1End(a) = { } THEN Len(a) ELSE First(Arg1End(a)) - 1)

AfterArg1(a) ==
  IF Arg1End(a) = { } THEN << >> ELSE SubSeq(a, First(Arg1End(a)), Len(a))

HasArg(a) == Arg1Start(a) # { }

\* The line has been received and the poll loop is back at uart1_getstr.
Handled == pc = "getstr" /\ nlines > 0

\* The outputs a command may drive, other than the LED itself.
Kept ==
  /\ override_led = old.override
  /\ DAC1_EN = old.dac_en
  /\ OPA1_EN = old.opa_en
  /\ DAC1DATL = old.level

Framed(r) ==
  /\ Len(r) >= 4
  /\ r[1] = "/" /\ r[2] = "0"
  /\ r[Len(r) - 1] = "#" /\ r[Len(r)] = "\n"

Contains(r, w) == \E i \in 0..(Len(r) - Len(w)) : SubSeq(r, i + 1, i + Len(w)) = w

ErrorWord == << "e", "r", "r", "o", "r" >>

\* ---------------------------------------------------------------------
\* Properties
\* ---------------------------------------------------------------------

\* C1 (as stated): when a line whose first '/' is followed by 'N' and later
\* by '!' has been handled, exactly one reply was transmitted, and it begins
\* with "/0" and ends with "#\n".
C1_EveryFrameForMeAnswered ==
  (Handled /\ ForMe(Rx)) => (Len(tx) = 1 /\ Framed(tx[1]))

\* C1 (amended): the same for such lines whose payload is not empty; at no
\* point of the handling has more than one reply been transmitted.
C1_NonEmptyFrameAnswered ==
  (nlines > 0 /\ ForMe(Rx) /\ PayloadOf(Rx) # << >>) =>
    /\ Len(tx) <= 1
    /\ \A i \in 1..Len(tx) : Framed(tx[i])
    /\ Handled => Len(tx) = 1

C1_Witness ==
  /\ Handled /\ ForMe(Rx) /\ PayloadOf(Rx) # << >>
  /\ First(SlashAt(Rx)) > 1
  /\ Len(tx) = 1 /\ Framed(tx[1])

\* C2: a line with no '/', or with no '!' after its first '/', is dropped:
\* trim returns a zero-length command, interpret_RS485_command is not
\* entered, nothing is transmitted, and the LED, the override flag and the
\* reference output stay as they were.
C2_NoFrameDiscarded ==
  (nlines > 0 /\ NoFrame(Rx)) =>
    /\ pc \in { "extract", "getstr" }
    /\ tx = << >>
    /\ Kept /\ GREENLED = old.led
    /\ (pc = "getstr" /\ m > 0) => (cmd = 0 /\ CStr(bufA, cmd) = << >>)
    /\ (pc = "getstr" /\ m = 0) => cmd = -1

C2_Witness ==
  /\ Handled /\ NoFrame(Rx) /\ SlashAt(Rx) # { } /\ m > 0
  /\ CStr(bufA, cmd) = << >>
  /\ old.override = 1

\* C3: a line whose first '/' is not followed by 'N' gets no reply and no
\* handler, whatever else it contains.
C3_ForeignIgnored ==
  (nlines > 0 /\ NotForMe(Rx)) =>
    /\ pc \in { "extract", "getstr" }
    /\ tx = << >>
    /\ adc = << >>
    /\ Kept /\ GREENLED = old.led

C3_Witness ==
  /\ Handled /\ NotForMe(Rx)
  /\ Rx = << "/", "X", "v", "!", "/", "N", "v", "!" >>
  /\ tx = << >>

\* C4: a frame for this node with an empty payload ("/N!") is not
\* dispatched: no reply of any kind, outputs unchanged.
C4_EmptyPayloadNotDispatched ==
  (nlines > 0 /\ ForMe(Rx) /\ PayloadOf(Rx) = << >>) =>
    /\ pc \in { "extract", "getstr" }
    /\ tx = << >>
    /\ Kept /\ GREENLED = old.led

C4_Witness ==
  /\ Handled /\ line = << "/", "N", "!" >>
  /\ tx = << >> /\ old.override = 1 /\ override_led = 1

\* C5: a command byte c other than v, L, a, w is answered with exactly
\* "/0" c " error: Unknown command#\n", whatever follows c, and leaves the
\* override flag and the reference output alone.
UnknownCommand(t) ==
  ForMe(t) /\ PayloadOf(t) # << >> /\ PayloadOf(t)[1] \notin { "v", "L", "a", "w" }

UnknownText(c) ==
  << "/", "0", c >> \o
  << " ", "e", "r", "r", "o", "r", ":", " ", "U", "n", "k", "n", "o", "w",
     "n", " ", "c", "o", "m", "m", "a", "n", "d", "#", "\n" >>

C5_UnknownCommandReply ==
  (nlines > 0 /\ UnknownCommand(Rx)) =>
    /\ Kept
    /\ tx \in { << >>, << UnknownText(PayloadOf(Rx)[1]) >> }
    /\ Handled => tx = << UnknownText(PayloadOf(Rx)[1]) >>

C5_Witness ==
  /\ Handled /\ UnknownCommand(Rx) /\ Len(PayloadOf(Rx)) > 1
  /\ tx = << UnknownText("z") >>
  /\ old.override = 1 /\ override_led = 1

\* C6: an L or w command with no argument token changes nothing (LED,
\* override flag, reference output) and is answered with the error text of
\* that command, which contains "error".
NoArgCommand(t, c) == Command(t, c) /\ ~HasArg(ArgsOf(t))

NoValueText ==
  << "/", "0", "L", " ", "e", "r", "r", "o", "r", ":", " ", "n", "o", " ",
     "v", "a", "l", "u", "e", "#", "\n" >>

MissingLevelText ==
  << "/", "0", "w", " ", "e", "r", "r", "o", "r", ":", " ", "m", "i", "s",
     "s", "i", "n", "g", " ", "l", "e", "v", "e", "l", " ", "a", "n",
     "d", " ", "o", "n", "/", "o", "f", "f", " ", "f", "l", "a", "g",
     "#", "\n" >>

C6_MissingArgumentIsError ==
  (nlines > 0 /\ (NoArgCommand(Rx, "L") \/ NoArgCommand(Rx, "w"))) =>
    /\ Kept
    /\ Handled =>
         /\ GREENLED = old.led
         /\ Len(tx) = 1 /\ Contains(tx[1], ErrorWord)
         /\ NoArgCommand(Rx, "L") => tx[1] = NoValueText
         /\ NoArgCommand(Rx, "w") => tx[1] = MissingLevelText

C6_Witness ==
  /\ Handled /\ NoArgCommand(Rx, "L") /\ ArgsOf(Rx) # << >>
  /\ tx = << NoValueText >>
  /\ old.led = 1 /\ GREENLED = 1

\* C7: an L command with a first token converting to k sets the LED and the
\* override flag to the least-significant bit of k before it transmits
\* "/0L <bit>#\n", and the LED keeps that value back at uart1_getstr.
LCommand(t) == Command(t, "L") /\ HasArg(ArgsOf(t))

LValue(t) == atoi(Arg1(ArgsOf(t)), 0)

LText(bit) ==
  << "/", "0", "L", " ", IF bit = 1 THEN "1" ELSE "0", "#", "\n" >>

C7_LedFollowsLowBit ==
  (nlines > 0 /\ LCommand(Rx)) =>
    LET bit == LValue(Rx) % 2
    IN /\ pc = "putstr" =>
            (GREENLED = bit /\ override_led = bit /\ tx = << >>)
       /\ (pc = "finish" \/ Handled) =>
            (GREENLED = bit /\ override_led = bit /\ tx = << LText(bit) >>)

C7_Witness ==
  /\ Handled /\ line = << "/", "N", "L", "1", "!" >>
  /\ GREENLED = 1 /\ override_led = 1
  /\ tx = << << "/", "0", "L", " ", "1", "#", "\n" >> >>
  /\ old.led = 0

\* C8 (as stated): a w command with level token L and optional flag token F
\* (1 when absent): F non-zero switches the reference on at min(max(L,0),255)
\* with reply "/0w VREF on level=<level>#\n"; F zero switches it off, leaves
\* the level register alone, with reply "/0w VREF off#\n".  The level
\* register stays within 0..255.
WCommand(t) == Command(t, "w") /\ HasArg(ArgsOf(t))

WLevel(t) == atoi(Arg1(ArgsOf(t)), 0)

WFlag(t) ==
  IF HasArg(AfterArg1(ArgsOf(t))) THEN atoi(Arg1(AfterArg1(ArgsOf(t))), 0) ELSE 1

Clamped(n) == IF n < 0 THEN 0 ELSE IF n > 255 THEN 255 ELSE n

VrefOnText(level) ==
  << "/", "0", "w", " ", "V", "R", "E", "F", " ", "o", "n", " ", "l", "e",
     "v", "e", "l", "=" >> \o FmtU(level)
    \o << "#", "\n" >>

VrefOffText ==
  << "/", "0", "w", " ", "V", "R", "E", "F", " ", "o", "f", "f", "#",
     "\n" >>

C8_FlagNonZeroSwitchesOn ==
  (Handled /\ WCommand(Rx)) =>
    /\ DAC1DATL \in 0..255
    /\ IF WFlag(Rx) # 0
       THEN /\ DAC1_EN = 1 /\ OPA1_EN = 1
            /\ DAC1DATL = Clamped(WLevel(Rx))
            /\ tx = << VrefOnText(Clamped(WLevel(Rx))) >>
       ELSE /\ DAC1_EN = 0 /\ OPA1_EN = 0
            /\ DAC1DATL = old.level
            /\ tx = << VrefOffText >>

\* C9: a v command is always answered with exactly
\* "/0v 0.1 PIC18F16Q41 NPP-301 Characterizer#\n", whatever follows the v
\* and whatever lines were handled before.
VersionText ==
  << "/", "0", "v", " ", "0", ".", "1", " ", "P", "I", "C", "1", "8", "F",
     "1", "6", "Q", "4", "1", " ", "N", "P", "P", "-", "3", "0", "1",
     " ", "C", "h", "a", "r", "a", "c", "t", "e", "r", "i", "z", "e",
     "r", "#", "\n" >>

C9_VersionReplyFixed ==
  (nlines > 0 /\ Command(Rx, "v")) =>
    /\ tx \in { << >>, << VersionText >> }
    /\ Handled => tx = << VersionText >>

C9_Witness ==
  /\ Handled /\ Command(Rx, "v") /\ Len(PayloadOf(Rx)) > 1
  /\ tx = << VersionText >>
  /\ nlines > 1 /\ old.override = 1

\* C10 (as stated): trim_RS485_command applied to the line "/N" a "!"
\* returns a command string equal to a.  (A line is a C string: none of its
\* bytes is the zero byte.)
Encodes(ln) ==
  /\ Len(ln) >= 3 /\ ln[1] = "/" /\ ln[2] = "N" /\ ln[Len(ln)] = "!"
  /\ \A i \in 1..Len(ln) : ln[i] # NUL

Encoded(ln) == SubSeq(ln, 3, Len(ln) - 1)

C10_RoundTrip ==
  (pc = "trim_ret" /\ Encodes(line)) => CStr(bufA, cmd) = Encoded(line)

\* C10 (amended): it does so when a contains no '!'.
C10_RoundTripPlainPayload ==
  ( /\ pc = "trim_ret" /\ Encodes(line)
    /\ \A i \in 1..Len(Encoded(line)) : Encoded(line)[i] # "!" )
  => CStr(bufA, cmd) = Encoded(line)

C10_Witness ==
  /\ pc = "trim_ret" /\ Encodes(line)
  /\ Len(line) = NBUFA - 1
  /\ CStr(bufA, cmd) = Encoded(line)

\* C11: whatever the NBUFA bytes of the receive buffer hold (a '/' or a '!'
\* in the last position, no zero byte at all), every index that find_char
\* and trim_RS485_command read or write is within 0..NBUFA-1; the command
\* string returned starts inside the buffer and a zero byte ends it inside
\* the buffer; and when a payload is returned, it starts two past the first
\* '/', which is not after the '!' that was overwritten with the zero byte.
C11_TrimStaysInsideBuffer ==
  pc = "trim_ret" =>
    /\ touched # { }
    /\ touched \subseteq 0..(NBUFA - 1)
    /\ cmd \in 0..(NBUFA - 1)
    /\ \E j \in cmd..(NBUFA - 1) : At(bufA, j) = NUL
    /\ cmd # 0 =>
         /\ ForMe(Rx)
         /\ cmd = (First(SlashAt(Rx)) - 1) + 2
         /\ cmd <= First(BangAfter(Rx)) - 1
         /\ At(bufA, First(BangAfter(Rx)) - 1) = NUL

\* '/', 'N' and '!' are the last three bytes of a buffer with no zero byte:
\* the payload returned is the empty string at the last index.
C11_Witness ==
  /\ pc = "trim_ret"
  /\ Len(line) = NBUFA /\ \A i \in 1..NBUFA : line[i] # NUL
  /\ cmd = NBUFA - 1
  /\ (NBUFA - 1) \in touched
  /\ At(bufA, cmd) = NUL

\* C12: every reply is shorter than the transmit buffer: with its zero byte
\* it takes fewer than NBUFB bytes, so snprintf stores all of it, and what
\* is in bufB and what is transmitted begins with "/0" and ends with "#\n".
C12_RepliesFitTransmitBuffer ==
  /\ Len(bufB) + 1 < NBUFB
  /\ bufB # << >> => Framed(bufB)
  /\ \A i \in 1..Len(tx) :
       /\ tx[i] # << >>
       /\ Len(tx[i]) + 1 < NBUFB
       /\ Framed(tx[i])

\* The a reply with five values of five digits has been transmitted whole.
C12_Witness ==
  /\ Handled /\ Command(Rx, "a")
  /\ tx = << << "/", "0", "a", " ", "6", "5", "5", "3", "5", " ",
                "6", "5", "5", "3", "5", " ", "6", "5", "5", "3", "5", " ",
                "6", "5", "5", "3", "5", " ", "6", "5", "5", "3", "5",
                "#", "\n" >> >>
  /\ bufB = tx[1]

\* Since the last line was read at most one reply has been transmitted, and
\* none before the handler of that line has run; before the first line
\* nothing has been transmitted.
OneReplyAtMost ==
  /\ nreplies <= nlines
  /\ Len(tx) <= 1
  /\ nlines = 0 => (tx = << >> /\ nreplies = 0)
  /\ pc \in { "extract", "interpret", "switch", "putstr" } => tx = << >>
  /\ tx # << >> => (pc \in { "finish", "getstr" } /\ nreplies >= 1)

\* The only step that transmits is the one out of "putstr", which a line
\* that was read has led to; it transmits one reply, the first since that
\* line, and reads no line.  The replies since the last line are forgotten
\* only when the next line is read.
TransmitStep ==
  /\ nreplies' # nreplies =>
       /\ pc = "putstr" /\ nlines > 0 /\ tx = << >>
       /\ nreplies' = nreplies + 1 /\ Len(tx') = 1
       /\ nlines' = nlines
  /\ (tx' # tx /\ nreplies' = nreplies) =>
       (pc = "getstr" /\ tx' = << >> /\ nlines' = nlines + 1)

\* C13: nothing is transmitted unsolicited.  Each reply is transmitted
\* after a line was read and before the next one is; there is at most one
\* reply to a line, also when the line holds several frames; the number of
\* replies never exceeds the number of lines read.
C13_NeverUnsolicited == []OneReplyAtMost /\ [][TransmitStep]_vars

\* Two lines have been read, the second holding two frames, and each was
\* answered once.
C13_Witness ==
  /\ Handled /\ nlines = 2 /\ nreplies = 2
  /\ line = << "/", "N", "v", "!", "/", "N", "z", "!" >>
  /\ Len(tx) = 1

\* C14: the poll loop never stops.  Whenever main is not waiting in
\* uart1_getstr (a line has been received and is being handled), it is
\* eventually waiting in uart1_getstr again; and a line that arrives while it
\* waits there can always be read (up to the bound on the lines of a run).
C14_ReturnsToWaiting ==
  /\ [](pc \in { "getstr", "extract", "interpret", "switch", "putstr", "finish" })
  /\ (pc # "getstr") ~> (pc = "getstr")

\* The second line was an a command: the five conversions and the
\* transmission have returned and main waits for the next line.
C14_Witness ==
  /\ Handled /\ nlines = 2 /\ nreplies >= 1
  /\ Command(Rx, "a")
  /\ Len(adc) = 5 /\ Len(tx) = 1

\* What the handling of a line comes to, read off the line alone (its bytes
\* before the first zero byte), the outputs before it and the values the
\* ADC returned: the reply, the outputs and the channels read.
Dispatch == ForMe(Rx) /\ PayloadOf(Rx) # << >>

AText(v) ==
  << "/", "0", "a", " " >> \o FmtU(v[1]) \o << " " >> \o FmtU(v[2])
    \o << " " >> \o FmtU(v[3]) \o << " " >> \o FmtU(v[4]) \o << " " >>
    \o FmtU(v[5]) \o << "#", "\n" >>

ReplyFor ==
  IF ~Dispatch THEN << >>
  ELSE IF Command(Rx, "v") THEN << VersionText >>
  ELSE IF NoArgCommand(Rx, "L") THEN << NoValueText >>
  ELSE IF LCommand(Rx) THEN << LText(LValue(Rx) % 2) >>
  ELSE IF Command(Rx, "a") THEN << AText([i \in 1..5 |-> adc[i].val]) >>
  ELSE IF NoArgCommand(Rx, "w") THEN << MissingLevelText >>
  ELSE IF WCommand(Rx)
       THEN IF Int8(WFlag(Rx)) # 0
            THEN << VrefOnText(Clamped(WLevel(Rx))) >>
            ELSE << VrefOffText >>
  ELSE << UnknownText(PayloadOf(Rx)[1]) >>

OutputsFor ==
  [ led |-> IF LCommand(Rx) THEN LValue(Rx) % 2 ELSE old.led,
    override |-> IF LCommand(Rx) THEN LValue(Rx) % 2 ELSE old.override,
    dac_en |-> IF WCommand(Rx)
               THEN (IF Int8(WFlag(Rx)) # 0 THEN 1 ELSE 0) ELSE old.dac_en,
    opa_en |-> IF WCommand(Rx)
               THEN (IF Int8(WFlag(Rx)) # 0 THEN 1 ELSE 0) ELSE old.opa_en,
    level |-> IF WCommand(Rx) /\ Int8(WFlag(Rx)) # 0
              THEN Clamped(WLevel(Rx)) ELSE old.level ]

\* Bytes that an earlier, longer line left in the buffer after the zero
\* byte that ends the present line.
StaleBytes == { i \in (Len(line) + 2)..NBUFA : bufA[i] # NUL }

\* C15: the scans stop at the first zero byte, so what follows the zero
\* byte that ends the line has no part in the result.  The command string
\* handed to interpret_RS485_command is the payload of the line's own first
\* frame; a line without such a payload is not dispatched; and the reply,
\* the outputs and the ADC channels read are those that the line alone
\* determines, whatever the buffer held before.
C15_StaleBytesIgnored ==
  /\ (nlines > 0 /\ pc \in { "interpret", "switch" }) =>
        (Dispatch /\ CStr(bufA, cmd) = PayloadOf(Rx))
  /\ (nlines > 0 /\ ~Dispatch) => (pc \in { "extract", "getstr" } /\ tx = << >>)
  /\ Handled =>
        /\ tx = ReplyFor
        /\ Outputs = OutputsFor
        /\ Command(Rx, "a") <=> adc # << >>

\* A line without a frame was dropped although a whole frame for this node,
\* left by the line before, follows its zero byte in the buffer.
C15_Witness ==
  /\ Handled /\ nlines = 2
  /\ line = << "x" >>
  /\ \E i \in StaleBytes :
       /\ i + 3 \in StaleBytes
       /\ SubSeq(bufA, i, i + 3) = << "/", "N", "v", "!" >>
  /\ tx = << >> /\ Outputs = old

\* A token that atoi finds no number in: it does not start with a digit, a
\* sign or white space.
NonNumeric(tok) ==
  /\ tok # << >>
  /\ ~IsDigit(tok[1]) /\ tok[1] \notin { "+", "-" } /\ ~IsSpace(tok[1])

WFlagToken(t) == Arg1(AfterArg1(ArgsOf(t)))

C17_ErrorWordIffRejected ==
  nlines > 0 =>
    \A i \in 1..Len(tx) :
      Contains(tx[i], ErrorWord) <=>
        (UnknownCommand(Rx) \/ NoArgCommand(Rx, "L") \/ NoArgCommand(Rx, "w"))

\* An L command without a value was answered with an error, after a line
\* that had switched the reference on was answered too.
C17_Witness ==
  /\ Handled /\ nlines = 2 /\ nreplies = 2
  /\ NoArgCommand(Rx, "L")
  /\ Len(tx) = 1 /\ Contains(tx[1], ErrorWord)
  /\ old.dac_en = 1

\* C18: whenever main waits for the next line, the LED output equals the
\* override flag.  Both are off before the first line, take the low bit of
\* the value of an L command that was carried out, and stay as they were
\* after any other line: the LED is on exactly when the last L command
\* carried out had an odd value.  While a command is handled the LED shows
\* activity only if the override flag is off.
C18_LedIsOverrideWhenWaiting ==
  /\ pc = "getstr" =>
       /\ GREENLED = override_led
       /\ nlines = 0 => GREENLED = 0
       /\ (nlines > 0 /\ LCommand(Rx)) => GREENLED = LValue(Rx) % 2
       /\ (nlines > 0 /\ ~LCommand(Rx)) => (GREENLED = old.led /\ override_led = old.override)
  /\ pc = "extract" => GREENLED = override_led
  /\ GREENLED # override_led => (GREENLED = 1 /\ pc \in { "switch", "putstr", "finish" })

\* The LED, switched on by "/NL1!", is still on after a v command was
\* handled, its activity indication included.
C18_Witness ==
  /\ Handled /\ nlines = 2
  /\ Command(Rx, "v") /\ Len(tx) = 1
  /\ old.led = 1 /\ old.override = 1
  /\ GREENLED = 1 /\ override_led = 1

\* The ADC channel number of pin `pin` of port B (1) or port C (2).
AN(port, pin) == port * 8 + pin

FiveChannels == << AN(2, 2), AN(2, 7), AN(1, 7), AN(1, 6), AN(1, 5) >>

ChannelsRead == [ i \in 1..Len(adc) |-> adc[i].ch ]

ValuesRead == [ i \in 1..Len(adc) |-> adc[i].val ]

\* C19: an a command, with or without bytes after the a, reads ANC2, ANC7,
\* ANB7, ANB6, ANB5, each once and in this order, all before anything is
\* transmitted, and is answered "/0a " followed by the five values as they
\* were read, in decimal, in that order, with one space between them, and
\* "#\n".
C19_FiveChannelsInOrder ==
  (nlines > 0 /\ Command(Rx, "a")) =>
    /\ pc \in { "extract", "interpret", "switch" } => (adc = << >> /\ tx = << >>)
    /\ pc = "putstr" => (ChannelsRead = FiveChannels /\ tx = << >>)
    /\ (pc = "finish" \/ Handled) =>
         /\ ChannelsRead = FiveChannels
         /\ tx = << AText(ValuesRead) >>

\* "/Na 1!" with the conversions 1, 20, 300, 4095, 5.
C19_Witness ==
  /\ Handled /\ line = << "/", "N", "a", " ", "1", "!" >>
  /\ ValuesRead = << 1, 20, 300, 4095, 5 >>
  /\ ChannelsRead = << 18, 23, 15, 14, 13 >>
  /\ tx = << << "/", "0", "a", " ", "1", " ", "2", "0", " ", "3", "0", "0", " ",
                "4", "0", "9", "5", " ", "5", "#", "\n" >> >>

\* C20: the override flag changes only by an L command that is carried out
\* (one with a value token); the reference output (DAC enable, DAC level,
\* op-amp enable) changes only by a w command that is carried out; the ADC
\* is read only by an a command.  So v and a commands, unknown commands,
\* commands answered with an error and lines that are dropped leave the
\* flag and the reference output as they were.
C20_EffectsOnlyOfOwnCommand ==
  nlines > 0 =>
    /\ override_led # old.override => LCommand(Rx)
    /\ << DAC1_EN, DAC1DATL, OPA1_EN >> # << old.dac_en, old.level, old.opa_en >>
         => WCommand(Rx)
    /\ adc # << >> => Command(Rx, "a")
    /\ ( \/ Command(Rx, "v") \/ Command(Rx, "a") \/ UnknownCommand(Rx)
         \/ NoArgCommand(Rx, "L") \/ NoArgCommand(Rx, "w") \/ ~Dispatch ) => Kept

\* An a command has read the ADC and left alone the reference that the
\* line before had switched on at level 128.
C20_Witness ==
  /\ Handled /\ nlines = 2
  /\ Command(Rx, "a") /\ Len(adc) = 5 /\ Len(tx) = 1
  /\ old.dac_en = 1 /\ old.opa_en = 1 /\ old.level = 128
  /\ DAC1_EN = 1 /\ OPA1_EN = 1 /\ DAC1DATL = 128

=============================================================================
